---- MODULE Spec2Model ----
(***************************************************************************)
(* A model of the AI scraper service (javascript_20250926_aded33.js):      *)
(* the AIScraper class (oracle query, AI answer parsing, rule-based        *)
(* fallback, selector synthesis, data-type inventory), the preview         *)
(* materializer generateDataPreview and the two POST handlers that drive   *)
(* a headless browser.                                                     *)
(*                                                                         *)
(* Strings are TLA+ strings.  A parsed page (cheerio.load(html)) is a      *)
(* sequence of element nodes in document order.  The text the oracle       *)
(* generates is a sequence of lexical tokens.  The entity tagger           *)
(* (compromise) and the oracle are external: their outcomes are chosen     *)
(* nondeterministically.                                                   *)
(***************************************************************************)
EXTENDS Integers, Sequences, FiniteSets, TLC

VARIABLES
    pc,             \* position of the request handler
    route,          \* "none" | "analyze" | "scrape"
    body,           \* req.body
    browser,        \* "none" | "open" | "closed"
    html,           \* the page the browser delivered (parsed), <<>> before
    textContent,    \* $('body').text().substring(0, 1500)
    requestsSent,   \* requests sent to the inference service
    oracle,         \* how the inference service answered, <<>> before
    aiResponse,     \* what queryHuggingFace returned
    fallbackStarts, \* number of times fallbackAnalysis was entered
    nlpDoc,         \* the tagger's findings on textContent
    analysis,       \* outcome of analyzeContentStructure
    preview,        \* outcome of generateDataPreview
    response,       \* the HTTP response sent, <<>> before
    fnIn,           \* input of a function applied on its own
    fnOut           \* its output

vars == <<pc, route, body, browser, html, textContent, requestsSent, oracle,
          aiResponse, fallbackStarts, nlpDoc, analysis, preview, response,
          fnIn, fnOut>>

(***************************************************************************)
(* Bounds of the model.                                                    *)
(***************************************************************************)
\* longest generated text, in tokens
MaxTextLen == 3
\* most repeated items on a listing page
MaxItems == 2
\* longest class attribute given to buildSelector on its own, in characters
MaxClassLen == 7

(***************************************************************************)
(* JavaScript strings.                                                     *)
(***************************************************************************)
Min(a, b) == IF a < b THEN a ELSE b

\* the characters i..j of s (1-based, inclusive), clamped to the string
chars(s, i, j) ==
    IF i > j \/ i > Len(s) \/ j < 1 THEN ""
    ELSE SubSeq(s, IF i < 1 THEN 1 ELSE i, Min(j, Len(s)))

charAt(s, i) == chars(s, i, i)

\* String.prototype.substring(from, to), 0-based, to exclusive
substring(s, from, to) == chars(s, from + 1, Min(to, Len(s)))

RECURSIVE indexFrom(_, _, _)
indexFrom(s, t, i) ==
    IF i + Len(t) - 1 > Len(s) THEN 0
    ELSE IF chars(s, i, i + Len(t) - 1) = t THEN i
    ELSE indexFrom(s, t, i + 1)

\* String.prototype.indexOf, 1-based, 0 when absent
indexOf(s, t) == indexFrom(s, t, 1)

\* String.prototype.includes
includes(s, t) == Len(t) = 0 \/ indexOf(s, t) > 0

UpperCase == "ABCDEFGHIJKLMNOPQRSTUVWXYZ"
LowerCase == "abcdefghijklmnopqrstuvwxyz"

UpperChars == {charAt(UpperCase, i) : i \in 1..Len(UpperCase)}
LowerOf == [c \in UpperChars |-> charAt(LowerCase, indexOf(UpperCase, c))]

lowerChar(c) == IF c \in UpperChars THEN LowerOf[c] ELSE c

RECURSIVE toLowerCase(_)
toLowerCase(s) ==
    IF Len(s) = 0 THEN ""
    ELSE lowerChar(charAt(s, 1)) \o toLowerCase(chars(s, 2, Len(s)))

\* /a|b|c/i.test(s) for literal alternatives
testI(alternatives, s) ==
    LET lower == toLowerCase(s)
    IN  \E a \in alternatives : includes(lower, toLowerCase(a))

IsSpace(c) == c \in {" ", "\t", "\n"}

RECURSIVE trimStart(_)
trimStart(s) ==
    IF Len(s) > 0 /\ IsSpace(charAt(s, 1)) THEN trimStart(chars(s, 2, Len(s))) ELSE s

RECURSIVE trimEnd(_)
trimEnd(s) ==
    IF Len(s) > 0 /\ IsSpace(charAt(s, Len(s)))
    THEN trimEnd(chars(s, 1, Len(s) - 1)) ELSE s

trim(s) == trimEnd(trimStart(s))

\* String.prototype.split(sep) for a one-character separator
RECURSIVE split(_, _)
split(s, sep) ==
    LET i == indexOf(s, sep)
    IN  IF i = 0 THEN <<s>>
        ELSE <<chars(s, 1, i - 1)>> \o split(chars(s, i + 1, Len(s)), sep)

\* a JavaScript value that may be undefined: <<>> or <<v>>
Undefined == <<>>
Defined(v) == <<v>>
IsDefined(x) == x # <<>>
\* truthiness of a possibly undefined string
Truthy(x) == x # <<>> /\ Len(x[1]) > 0

(***************************************************************************)
(* The parsed document and cheerio's queries.                              *)
(***************************************************************************)
Node(tag, id, class, parent, text) ==
    [tag |-> tag, id |-> id, class |-> class, parent |-> parent, text |-> text]

RECURSIVE IsAncestor(_, _, _)
IsAncestor(doc, a, j) ==
    /\ doc[j].parent # 0
    /\ (doc[j].parent = a \/ IsAncestor(doc, a, doc[j].parent))

RECURSIVE TextFrom(_, _, _)
TextFrom(doc, i, j) ==
    IF j > Len(doc) THEN ""
    ELSE (IF j = i \/ IsAncestor(doc, i, j) THEN doc[j].text ELSE "")
         \o TextFrom(doc, i, j + 1)

\* $(elem).text(): the text of the element and of its descendants
text(doc, i) == TextFrom(doc, i, i)

Indexes(doc) == [i \in 1..Len(doc) |-> i]

IndexOfTag(doc, tag) ==
    IF \E i \in 1..Len(doc) : doc[i].tag = tag
    THEN CHOOSE i \in 1..Len(doc) :
            doc[i].tag = tag /\ \A j \in 1..(i - 1) : doc[j].tag # tag
    ELSE 0

RECURSIVE SeqToSet(_)
SeqToSet(s) == IF s = <<>> THEN {} ELSE {Head(s)} \cup SeqToSet(Tail(s))

\* the class names of an element, as the selector engine sees them
ClassNames(node) ==
    IF node.class = <<>> THEN {}
    ELSE {c \in SeqToSet(split(node.class[1], " ")) : Len(c) > 0}

\* one simple selector against one element: #id, .class, [class*="x"], tag
MatchesSimple(node, sel) ==
    IF Len(sel) = 0 THEN FALSE
    ELSE IF charAt(sel, 1) = "#"
         THEN node.id = <<chars(sel, 2, Len(sel))>>
    ELSE IF charAt(sel, 1) = "."
         THEN chars(sel, 2, Len(sel)) \in ClassNames(node)
    ELSE IF chars(sel, 1, 9) = "[class*=\""
         THEN /\ node.class # <<>>
              /\ includes(node.class[1], chars(sel, 10, Len(sel) - 2))
    ELSE node.tag = sel

\* a comma-joined rule matches when one of its alternatives does
Matches(node, rule) ==
    LET alts == split(rule, ",")
    IN  \E k \in 1..Len(alts) : MatchesSimple(node, trim(alts[k]))

\* $(rule): the matching elements in document order
Query(doc, rule) ==
    SelectSeq(Indexes(doc), LAMBDA i : Matches(doc[i], rule))

\* $(elem).find(rule): the matching descendants in document order
Find(doc, elem, rule) ==
    SelectSeq(Indexes(doc), LAMBDA i : IsAncestor(doc, elem, i) /\ Matches(doc[i], rule))

\* $(elem).find(rule).first().text().trim()
FirstText(doc, elem, rule) ==
    LET found == Find(doc, elem, rule)
    IN  IF found = <<>> THEN "" ELSE trim(text(doc, found[1]))

(***************************************************************************)
(* Pages.                                                                  *)
(***************************************************************************)
Shell ==
    << Node("html", <<>>, <<>>, 0, ""),
       Node("head", <<>>, <<>>, 1, ""),
       Node("body", <<>>, <<>>, 1, "") >>

EmptyDoc == Shell

\* <div id="p1"><h2>Widget</h2><span class="price">$19.99</span></div>
WidgetDoc ==
    Shell \o << Node("div", <<"p1">>, <<>>, 3, ""),
                Node("h2", <<>>, <<>>, 4, "Widget"),
                Node("span", <<>>, <<"price">>, 4, "$19.99") >>

\* a listing page: <ul> of <li class="item"><h3>..</h3><span class="price">..</span></li>,
\* each item either filled (the n-th is priced "$n") or blank
ItemKinds == {"filled", "blank"}
Digits == "123456789"

RECURSIVE ItemNodes(_, _)
ItemNodes(items, n) ==
    IF n > Len(items) THEN <<>>
    ELSE << Node("li", <<>>, <<"item">>, 4, ""),
            Node("h3", <<>>, <<>>, 2 + 3 * n,
                 IF items[n] = "filled" THEN "Deluxe Widget Pro" ELSE ""),
            Node("span", <<>>, <<"price">>, 2 + 3 * n,
                 IF items[n] = "filled" THEN " $" \o charAt(Digits, n) \o " " ELSE " ") >>
         \o ItemNodes(items, n + 1)

ListDoc(items) == Shell \o << Node("ul", <<>>, <<>>, 3, "") >> \o ItemNodes(items, 1)

SeqsUpTo(S, n) == UNION {[1..k -> S] : k \in 0..n}

Docs == {EmptyDoc, WidgetDoc} \cup {ListDoc(items) : items \in SeqsUpTo(ItemKinds, MaxItems)}

(***************************************************************************)
(* JavaScript values and calls.                                            *)
(***************************************************************************)
\* a JSON value, tagged with its type
Str(s) == [t |-> "string", v |-> s]
Obj(m) == [t |-> "object", v |-> m]
Arr(a) == [t |-> "array", v |-> a]

\* {} and obj[k] = v
EmptyObject == [k \in {} |-> ""]
Put(m, k, v) == [x \in (DOMAIN m) \cup {k} |-> IF x = k THEN v ELSE m[x]]

\* how a call ends: with a value, or by throwing
Return(v) == [threw |-> FALSE, value |-> v]
Throw(e) == [threw |-> TRUE, value |-> e]

(***************************************************************************)
(* The inference service and queryHuggingFace.                             *)
(***************************************************************************)
\* generated text, as tokens: braces, commas, prose, and whole
\* "key": value members of an object
Tok(kind, key, val) == [tok |-> kind, key |-> key, val |-> val]
LBrace == Tok("{", "", Str(""))
RBrace == Tok("}", "", Str(""))
Comma == Tok(",", "", Str(""))
Prose == Tok("prose", "", Str(""))
MemberPrice == Tok("member", "price", Str(".price"))
MemberSelectors ==
    Tok("member", "selectors", Obj(("item" :> "li") @@ ("price" :> ".price")))

TokenAlphabet == {LBrace, RBrace, Prose, MemberPrice, MemberSelectors}

\* longer answers: two members, and two objects in one text
LongTexts ==
    { <<Prose, LBrace, MemberSelectors, Comma, MemberPrice, RBrace>>,
      <<LBrace, MemberPrice, Comma, RBrace>>,
      <<LBrace, MemberPrice, RBrace, Prose, LBrace, MemberPrice, RBrace>> }

Texts == SeqsUpTo(TokenAlphabet, MaxTextLen) \cup LongTexts

\* what JSON.parse(response.body) can be
JNull == [kind |-> "null", generated_text |-> <<>>]
ErrorObject == [kind |-> "errorObject", generated_text |-> <<>>]
EmptyArray == [kind |-> "emptyArray", generated_text |-> <<>>]
Generated(txt) == [kind |-> "generated", generated_text |-> txt]

Bodies ==
    {[json |-> FALSE, value |-> JNull]}
    \cup {[json |-> TRUE, value |-> v] :
            v \in {JNull, ErrorObject, EmptyArray} \cup {Generated(txt) : txt \in Texts}}

StatusOK == 200
OtherStatuses == {401, 503}

\* every way the request of line 25 can end
OracleOutcomes ==
    {[kind |-> "throw", statusCode |-> 0, body |-> [json |-> FALSE, value |-> JNull]]}
    \cup {[kind |-> "response", statusCode |-> s, body |-> b] :
            s \in OtherStatuses,
            b \in {[json |-> FALSE, value |-> JNull], [json |-> TRUE, value |-> ErrorObject]}}
    \cup {[kind |-> "response", statusCode |-> StatusOK, body |-> b] : b \in Bodies}

\* the parsed body on status 200, null on any failure
queryHuggingFace(outcome) ==
    IF outcome.kind = "response" /\ outcome.statusCode = StatusOK /\ outcome.body.json
    THEN outcome.body.value
    ELSE JNull
\* variant: the generated text is never looked at
HasGeneratedTextNever(ai) == FALSE

\* aiResponse && aiResponse[0] && aiResponse[0].generated_text
HasGeneratedText(ai) == ai.kind = "generated" /\ ai.generated_text # <<>>

(***************************************************************************)
(* parseAIResponse.                                                        *)
(***************************************************************************)
FirstIndex(txt, kind) ==
    IF \E i \in 1..Len(txt) : txt[i].tok = kind
    THEN CHOOSE i \in 1..Len(txt) :
            txt[i].tok = kind /\ \A j \in 1..(i - 1) : txt[j].tok # kind
    ELSE 0

LastIndex(txt, kind) ==
    IF \E i \in 1..Len(txt) : txt[i].tok = kind
    THEN CHOOSE i \in 1..Len(txt) :
            txt[i].tok = kind /\ \A j \in (i + 1)..Len(txt) : txt[j].tok # kind
    ELSE 0

\* aiText.match(/\{[\s\S]*\}/): from the first "{" to the last "}" after it
jsonMatch(aiText) ==
    LET first == FirstIndex(aiText, "{")
        last == LastIndex(aiText, "}")
    IN  IF first > 0 /\ last > first
        THEN Defined(SubSeq(aiText, first, last))
        ELSE Undefined

\* the members between the braces: member (, member)*
WellFormedMembers(inner) ==
    \/ inner = <<>>
    \/ /\ Len(inner) % 2 = 1
       /\ \A i \in 1..Len(inner) :
            inner[i].tok = (IF i % 2 = 1 THEN "member" ELSE ",")

\* JSON.parse of a span that starts with "{": an object, or a SyntaxError
JSONparse(span) ==
    LET inner == SubSeq(span, 2, Len(span) - 1)
        keys == {inner[i].key : i \in {j \in 1..Len(inner) : inner[j].tok = "member"}}
        LastOf(k) == CHOOSE i \in 1..Len(inner) :
                        /\ inner[i].tok = "member" /\ inner[i].key = k
                        /\ \A j \in (i + 1)..Len(inner) :
                             ~(inner[j].tok = "member" /\ inner[j].key = k)
    IN  IF /\ Len(span) >= 2
           /\ span[1].tok = "{"
           /\ span[Len(span)].tok = "}"
           /\ WellFormedMembers(inner)
        THEN Return([k \in keys |-> inner[LastOf(k)].val])
        ELSE Throw("SyntaxError")

\* what analyzeContentStructure hands back
NullResult == [kind |-> "null", obj |-> EmptyObject]
ObjectResult(o) == [kind |-> "object", obj |-> o]
RaisedResult == [kind |-> "raised", obj |-> EmptyObject]
Pending == [kind |-> "pending", obj |-> EmptyObject]

parseAIResponse(aiText) ==
    LET m == jsonMatch(aiText)
    IN  IF IsDefined(m) /\ ~JSONparse(m[1]).threw
        THEN ObjectResult(JSONparse(m[1]).value)
        ELSE NullResult

(***************************************************************************)
(* The rule-based fallback.                                                *)
(***************************************************************************)
TextLimit == 200
MinTextLength == 10
MinClassLength == 2
PageTextLimit == 1500

GenericPriceRule == ".price, .cost, [class*=\"price\"]"
GenericTitleRule == ".title, .name, h1, h2, h3"
GenericItemRule == ".product, .item, .card, [class*=\"item\"], li, article"

\* what the tagger can report: has('#Money'), has('#Noun'),
\* match('#Email').found, match('#PhoneNumber').found
NlpOutcomes == [Money : BOOLEAN, Noun : BOOLEAN, Email : BOOLEAN, PhoneNumber : BOOLEAN]
NoNlp == [Money |-> FALSE, Noun |-> FALSE, Email |-> FALSE, PhoneNumber |-> FALSE]

\* the elements with more than 10 characters of trimmed text, in document order
Element(doc, i) ==
    [tag |-> doc[i].tag,
     text |-> substring(trim(text(doc, i)), 0, TextLimit),
     classes |-> doc[i].class,
     id |-> doc[i].id,
     context |-> IF doc[i].parent = 0 THEN Undefined
                 ELSE Defined(doc[doc[i].parent].tag)]

RECURSIVE ElementsFrom(_, _)
ElementsFrom(doc, i) ==
    IF i > Len(doc) THEN <<>>
    ELSE (IF Len(trim(text(doc, i))) > MinTextLength
          THEN <<Element(doc, i)>> ELSE <<>>)
         \o ElementsFrom(doc, i + 1)

Elements(doc) == ElementsFrom(doc, 1)
\* variant: classes of two characters are kept (c.length >= 2)
buildSelectorKeepsShort(element) ==
    IF Truthy(element.id) THEN "#" \o element.id[1]
    ELSE LET classes == IF Truthy(element.classes)
                        THEN SelectSeq(split(element.classes[1], " "),
                                       LAMBDA c : Len(c) >= MinClassLength)
                        ELSE <<>>
         IN  IF classes # <<>> THEN "." \o classes[1] ELSE element.tag

buildSelector(element) ==
    IF Truthy(element.id) THEN "#" \o element.id[1]
    ELSE LET classes == IF Truthy(element.classes)
                        THEN SelectSeq(split(element.classes[1], " "),
                                       LAMBDA c : Len(c) > MinClassLength)
                        ELSE <<>>
         IN  IF classes # <<>> THEN "." \o classes[1] ELSE element.tag

MoneyWords == {"$", "€", "£", "USD", "price", "cost"}
\* variant: the last matching element wins
findBestPriceSelectorLast(elements) ==
    LET hits == SelectSeq(elements, LAMBDA e : testI(MoneyWords, e.text))
    IN  IF hits # <<>> THEN buildSelector(hits[Len(hits)]) ELSE GenericPriceRule

findBestPriceSelector(elements) ==
    LET hits == SelectSeq(elements, LAMBDA e : testI(MoneyWords, e.text))
    IN  IF hits # <<>> THEN buildSelector(hits[1]) ELSE GenericPriceRule

HeadingTags == {"h1", "h2", "h3", "h4"}

findBestTitleSelector(elements) ==
    LET headingElements ==
            SelectSeq(elements,
                      LAMBDA e : e.tag \in HeadingTags /\ Len(e.text) > MinTextLength)
    IN  IF headingElements # <<>> THEN buildSelector(headingElements[1])
        ELSE GenericTitleRule

PriceGate(userPrompt, nlp) == includes(toLowerCase(userPrompt), "price") \/ nlp.Money
TitleGate(userPrompt, nlp) == includes(toLowerCase(userPrompt), "product") \/ nlp.Noun
ContactGate(userPrompt, nlp) ==
    includes(toLowerCase(userPrompt), "contact") \/ nlp.Email \/ nlp.PhoneNumber

\* this.findBestContactSelector($, elements): class AIScraper defines no such
\* method, so the call throws
CallFindBestContactSelector ==
    Throw("TypeError: this.findBestContactSelector is not a function")

intelligentSelectorDiscovery(doc, userPrompt, nlp) ==
    LET elements == Elements(doc)
        s0 == EmptyObject
        s1 == IF PriceGate(userPrompt, nlp)
              THEN Put(s0, "price", findBestPriceSelector(elements)) ELSE s0
        s2 == IF TitleGate(userPrompt, nlp)
              THEN Put(s1, "title", findBestTitleSelector(elements)) ELSE s1
        contact == CallFindBestContactSelector
        s3 == IF ContactGate(userPrompt, nlp)
              THEN Put(s2, "contact", contact.value) ELSE s2
    IN  IF ContactGate(userPrompt, nlp) /\ contact.threw
        THEN Throw(contact.value)
        ELSE Return(Put(s3, "item", GenericItemRule))
\* variant: text_content is pushed unconditionally
identifyDataTypesAlwaysDefault(userPrompt, nlp) ==
    (IF nlp.Money \/ testI({"price", "cost", "€", "$", "£"}, userPrompt)
     THEN <<"prices">> ELSE <<>>)
    \o (IF nlp.Email \/ testI({"contact", "email"}, userPrompt)
        THEN <<"emails">> ELSE <<>>)
    \o (IF nlp.PhoneNumber \/ testI({"phone", "tel", "contact"}, userPrompt)
        THEN <<"phones">> ELSE <<>>)
    \o (IF nlp.Noun \/ testI({"product", "item", "service"}, userPrompt)
        THEN <<"products">> ELSE <<>>)
    \o <<"text_content">>

identifyDataTypes(userPrompt, nlp) ==
    LET types ==
            (IF nlp.Money \/ testI({"price", "cost", "€", "$", "£"}, userPrompt)
             THEN <<"prices">> ELSE <<>>)
            \o (IF nlp.Email \/ testI({"contact", "email"}, userPrompt)
                THEN <<"emails">> ELSE <<>>)
            \o (IF nlp.PhoneNumber \/ testI({"phone", "tel", "contact"}, userPrompt)
                THEN <<"phones">> ELSE <<>>)
            \o (IF nlp.Noun \/ testI({"product", "item", "service"}, userPrompt)
                THEN <<"products">> ELSE <<>>)
    IN  IF Len(types) > 0 THEN types ELSE <<"text_content">>

fallbackAnalysis(doc, userPrompt, nlp) ==
    LET selectors == intelligentSelectorDiscovery(doc, userPrompt, nlp)
    IN  IF selectors.threw THEN selectors
        ELSE Return(("selectors" :> Obj(selectors.value))
                    @@ ("dataTypes" :> Arr(identifyDataTypes(userPrompt, nlp)))
                    @@ ("confidence" :> Str("medium"))
                    @@ ("source" :> Str("fallback")))

(***************************************************************************)
(* generateDataPreview.                                                    *)
(***************************************************************************)
\* the record of one container: every field but item
ItemOf(doc, elem, selectors) ==
    [key \in (DOMAIN selectors) \ {"item"} |-> FirstText(doc, elem, selectors[key])]
\* variant: every record is kept
SomeValueAlways(item) == TRUE

\* Object.values(item).some(val => val)
SomeValue(item) == \E key \in DOMAIN item : Len(item[key]) > 0

RECURSIVE EachContainer(_, _, _, _)
EachContainer(doc, containers, selectors, results) ==
    IF containers = <<>> THEN results
    ELSE LET item == ItemOf(doc, Head(containers), selectors)
         IN  EachContainer(doc, Tail(containers), selectors,
                           IF SomeValue(item) THEN Append(results, item) ELSE results)

\* selectors.item || 'body'
ItemRule(selectors) ==
    IF "item" \in DOMAIN selectors /\ Len(selectors["item"]) > 0
    THEN selectors["item"] ELSE "body"

generateDataPreview(doc, selectors) ==
    EachContainer(doc, Query(doc, ItemRule(selectors)), selectors, <<>>)

(***************************************************************************)
(* Requests.                                                               *)
(***************************************************************************)
PreviewLimit == 5
DefaultPrompt == "Extract all meaningful data"
Url == "http://shop.example/list"

Prompts ==
    {"get me the price and title", "contact info", "Products", "email and phone"}

FieldMaps ==
    { ("item" :> "li") @@ ("price" :> ".price") @@ ("title" :> "h3"),
      ("item" :> ".card") @@ ("price" :> ".price"),
      ("price" :> ".price") @@ ("title" :> "h2"),
      ("item" :> "li, div") @@ ("price" :> "#p1, span"),
      ("item" :> "li") }

AnalyzeBodies ==
    [url : {Undefined, Defined(Url)},
     prompt : {Undefined} \cup {Defined(p) : p \in Prompts},
     selectors : {Undefined}]

ScrapeBodies ==
    [url : {Undefined, Defined(Url)},
     prompt : {Undefined},
     selectors : {Undefined} \cup {Defined(m) : m \in FieldMaps}]

NoBody == [url |-> Undefined, prompt |-> Undefined, selectors |-> Undefined]

\* prompt || 'Extract all meaningful data'
UserPrompt(b) == IF Truthy(b.prompt) THEN b.prompt[1] ELSE DefaultPrompt

Response(status, records, total) ==
    Defined([status |-> status, preview |-> records, totalElements |-> total])

\* preview.slice(0, 5)
FirstRecords(records) == SubSeq(records, 1, Min(PreviewLimit, Len(records)))

Idle ==
    /\ pc = "idle" /\ route = "none" /\ body = NoBody /\ browser = "none"
    /\ html = Undefined /\ textContent = "" /\ requestsSent = 0
    /\ oracle = Undefined /\ aiResponse = JNull /\ fallbackStarts = 0
    /\ nlpDoc = NoNlp /\ analysis = Pending /\ preview = Undefined
    /\ response = Undefined

Init == Idle /\ fnIn = Undefined /\ fnOut = Undefined

\* the catch blocks of both handlers: answer 500
Catch ==
    /\ response' = Response(500, <<>>, 0)
    /\ pc' = "done"

\* POST /api/analyze arrives
PostAnalyze ==
    /\ pc = "idle"
    /\ \E b \in AnalyzeBodies :
        /\ body' = b
        /\ route' = "analyze"
        /\ IF ~Truthy(b.url)
           THEN /\ response' = Response(400, <<>>, 0)
                /\ pc' = "done"
           ELSE /\ pc' = "launch"
                /\ UNCHANGED response
    /\ UNCHANGED <<browser, html, textContent, requestsSent, oracle, aiResponse,
                   fallbackStarts, nlpDoc, analysis, preview, fnIn, fnOut>>

\* POST /api/scrape arrives and calls executeScraping
PostScrape ==
    /\ pc = "idle"
    /\ \E b \in ScrapeBodies :
        /\ body' = b
        /\ route' = "scrape"
        /\ pc' = "launch"
    /\ UNCHANGED <<browser, html, textContent, requestsSent, oracle, aiResponse,
                   fallbackStarts, nlpDoc, analysis, preview, response, fnIn, fnOut>>

\* await Apify.launchPuppeteer()
LaunchPuppeteer ==
    /\ pc = "launch"
    /\ \E ok \in BOOLEAN :
        IF ok THEN /\ browser' = "open"
                   /\ pc' = "goto"
                   /\ UNCHANGED response
        ELSE /\ Catch
             /\ UNCHANGED browser
    /\ UNCHANGED <<route, body, html, textContent, requestsSent, oracle, aiResponse,
                   fallbackStarts, nlpDoc, analysis, preview, fnIn, fnOut>>

\* await browser.newPage(); await page.goto(url, ...)
PageGoto ==
    /\ pc = "goto"
    /\ \E ok \in BOOLEAN :
        IF ok /\ Truthy(body.url)
        THEN /\ pc' = "content"
             /\ UNCHANGED response
        ELSE Catch
    /\ UNCHANGED <<route, body, browser, html, textContent, requestsSent, oracle,
                   aiResponse, fallbackStarts, nlpDoc, analysis, preview, fnIn, fnOut>>

\* const html = await page.content()
PageContent ==
    /\ pc = "content"
    /\ \/ \E d \in Docs :
            /\ html' = Defined(d)
            /\ pc' = "close"
            /\ UNCHANGED response
       \/ /\ Catch
          /\ UNCHANGED html
    /\ UNCHANGED <<route, body, browser, textContent, requestsSent, oracle,
                   aiResponse, fallbackStarts, nlpDoc, analysis, preview, fnIn, fnOut>>

\* await browser.close()
BrowserClose ==
    /\ pc = "close"
    /\ browser' = "closed"
    /\ pc' = IF route = "analyze" THEN "analyze" ELSE "preview"
    /\ UNCHANGED <<route, body, html, textContent, requestsSent, oracle, aiResponse,
                   fallbackStarts, nlpDoc, analysis, preview, response, fnIn, fnOut>>

\* analyzeContentStructure up to the await: the one request to the service
SendOracleRequest ==
    /\ pc = "analyze"
    /\ textContent' = substring(text(html[1], IndexOfTag(html[1], "body")), 0, PageTextLimit)
    /\ requestsSent' = requestsSent + 1
    /\ pc' = "query"
    /\ UNCHANGED <<route, body, browser, html, oracle, aiResponse, fallbackStarts,
                   nlpDoc, analysis, preview, response, fnIn, fnOut>>

\* the request ends, queryHuggingFace returns
OracleResolve ==
    /\ pc = "query"
    /\ \E outcome \in OracleOutcomes :
        /\ oracle' = Defined(outcome)
        /\ aiResponse' = queryHuggingFace(outcome)
    /\ pc' = "resolved"
    /\ UNCHANGED <<route, body, browser, html, textContent, requestsSent,
                   fallbackStarts, nlpDoc, analysis, preview, response, fnIn, fnOut>>

\* return this.parseAIResponse(aiResponse[0].generated_text)
ParseAI ==
    /\ pc = "resolved"
    /\ HasGeneratedText(aiResponse)
    /\ analysis' = parseAIResponse(aiResponse.generated_text)
    /\ pc' = "preview"
    /\ UNCHANGED <<route, body, browser, html, textContent, requestsSent, oracle,
                   aiResponse, fallbackStarts, nlpDoc, preview, response, fnIn, fnOut>>

\* return this.fallbackAnalysis($, userPrompt, textContent)
Fallback ==
    /\ pc = "resolved"
    /\ ~HasGeneratedText(aiResponse)
    /\ fallbackStarts' = fallbackStarts + 1
    /\ \E nlp \in NlpOutcomes :
        /\ nlpDoc' = nlp
        /\ LET r == fallbackAnalysis(html[1], UserPrompt(body), nlp)
           IN  IF r.threw
               THEN /\ analysis' = RaisedResult
                    /\ Catch
               ELSE /\ analysis' = ObjectResult(r.value)
                    /\ pc' = "preview"
                    /\ UNCHANGED response
    /\ UNCHANGED <<route, body, browser, html, textContent, requestsSent, oracle,
                   aiResponse, preview, fnIn, fnOut>>

\* analysis.selectors, as the handler reads it
SelectorsOf(a) ==
    IF a.kind = "object" /\ "selectors" \in DOMAIN a.obj
    THEN Defined(a.obj["selectors"].v)
    ELSE Undefined

\* generateDataPreview(html, analysis.selectors); res.json(...)
AnalyzeRespond ==
    /\ pc = "preview"
    /\ route = "analyze"
    /\ IF analysis.kind = "null" \/ ~IsDefined(SelectorsOf(analysis))
       THEN /\ Catch
            /\ UNCHANGED preview
       ELSE LET records == generateDataPreview(html[1], SelectorsOf(analysis)[1])
            IN  /\ preview' = Defined(records)
                /\ response' = Response(200, FirstRecords(records), Len(records))
                /\ pc' = "done"
    /\ UNCHANGED <<route, body, browser, html, textContent, requestsSent, oracle,
                   aiResponse, fallbackStarts, nlpDoc, analysis, fnIn, fnOut>>

\* return generateDataPreview(html, selectors); res.json(...)
ScrapeRespond ==
    /\ pc = "preview"
    /\ route = "scrape"
    /\ IF ~IsDefined(body.selectors)
       THEN /\ Catch
            /\ UNCHANGED preview
       ELSE LET records == generateDataPreview(html[1], body.selectors[1])
            IN  /\ preview' = Defined(records)
                /\ response' = Response(200, records, Len(records))
                /\ pc' = "done"
    /\ UNCHANGED <<route, body, browser, html, textContent, requestsSent, oracle,
                   aiResponse, fallbackStarts, nlpDoc, analysis, fnIn, fnOut>>

Next ==
    \/ PostAnalyze
    \/ PostScrape
    \/ LaunchPuppeteer
    \/ PageGoto
    \/ PageContent
    \/ BrowserClose
    \/ SendOracleRequest
    \/ OracleResolve
    \/ ParseAI
    \/ Fallback
    \/ AnalyzeRespond
    \/ ScrapeRespond

Spec == Init /\ [][Next]_vars

(***************************************************************************)
(* buildSelector and identifyDataTypes applied on their own.               *)
(***************************************************************************)
ClassAlphabet == {"a", "b", " "}

RECURSIVE Join(_)
Join(cs) == IF cs = <<>> THEN "" ELSE Head(cs) \o Join(Tail(cs))

ClassAttributes == {Join(cs) : cs \in SeqsUpTo(ClassAlphabet, MaxClassLen)}

CandidateElements ==
    [tag : {"div"},
     text : {"Deluxe Widget Pro"},
     classes : {Undefined} \cup {Defined(c) : c \in ClassAttributes},
     id : {Undefined, Defined(""), Defined("p1")},
     context : {Defined("body")}]

InitSelector == Idle /\ fnIn \in {Defined(e) : e \in CandidateElements} /\ fnOut = Undefined

ApplyBuildSelector ==
    /\ fnOut = Undefined
    /\ fnOut' = Defined(buildSelector(fnIn[1]))
    /\ UNCHANGED <<pc, route, body, browser, html, textContent, requestsSent, oracle,
                   aiResponse, fallbackStarts, nlpDoc, analysis, preview, response, fnIn>>

SpecSelector == InitSelector /\ [][ApplyBuildSelector]_vars

TypePrompts ==
    Prompts \cup {DefaultPrompt, "PRICE list", "hotel rooms", "item cost in €",
                  "telephone", "our services"}

InitTypes ==
    /\ Idle
    /\ fnIn \in {Defined([userPrompt |-> p, nlp |-> n]) : p \in TypePrompts, n \in NlpOutcomes}
    /\ fnOut = Undefined

ApplyIdentifyDataTypes ==
    /\ fnOut = Undefined
    /\ fnOut' = Defined(identifyDataTypes(fnIn[1].userPrompt, fnIn[1].nlp))
    /\ UNCHANGED <<pc, route, body, browser, html, textContent, requestsSent, oracle,
                   aiResponse, fallbackStarts, nlpDoc, analysis, preview, response, fnIn>>

SpecTypes == InitTypes /\ [][ApplyIdentifyDataTypes]_vars

(***************************************************************************)
(* Properties.                                                             *)
(***************************************************************************)
\* analyzeContentStructure has ended, by returning or by raising
AnalyzeEnded == analysis.kind # "pending"

\* a field of the returned object, Undefined when there is none
Field(a, k) ==
    IF a.kind = "object" /\ k \in DOMAIN a.obj THEN Defined(a.obj[k]) ELSE Undefined

\* the text the service generated, when it answered 200 with a JSON body holding one
AnsweredText(o) ==
    IF /\ o.kind = "response" /\ o.statusCode = StatusOK /\ o.body.json
       /\ o.body.value.kind = "generated"
    THEN Defined(o.body.value.generated_text)
    ELSE Undefined

\* the generated text holds a {...} span that parses as JSON
HoldsJSONObject(txt) ==
    IsDefined(jsonMatch(txt)) /\ ~JSONparse(jsonMatch(txt)[1]).threw

\* the service returned a usable answer
UsableAnswer(o) == IsDefined(AnsweredText(o)) /\ HoldsJSONObject(AnsweredText(o)[1])

\* the failures C2 lists: the request throws or times out, a status other than
\* 200, a body that is not JSON, generated text without a parseable {...} span
NoUsableAnswer(o) ==
    \/ o.kind = "throw"
    \/ o.statusCode # StatusOK
    \/ ~o.body.json
    \/ /\ IsDefined(AnsweredText(o))
       /\ ~HoldsJSONObject(AnsweredText(o)[1])

\* the service returned a non-empty field map
UsableMap(o) ==
    /\ UsableAnswer(o)
    /\ DOMAIN JSONparse(jsonMatch(AnsweredText(o)[1])[1]).value # {}

AnsweredMap(o) == JSONparse(jsonMatch(AnsweredText(o)[1])[1]).value

----------------------------------------------------------------------------
\* C1: whatever the inference service does, analyzeContentStructure ends
\* without raising and returns an object with a non-empty selectors.item, a
\* non-empty dataTypes and a source that is "ai" or "fallback".
AnalyzeAlwaysReturnsInferenceResult ==
    AnalyzeEnded =>
        /\ analysis.kind = "object"
        /\ IsDefined(Field(analysis, "selectors"))
        /\ Field(analysis, "selectors")[1].t = "object"
        /\ "item" \in DOMAIN Field(analysis, "selectors")[1].v
        /\ Len(Field(analysis, "selectors")[1].v["item"]) > 0
        /\ IsDefined(Field(analysis, "dataTypes"))
        /\ Field(analysis, "dataTypes")[1].t = "array"
        /\ Len(Field(analysis, "dataTypes")[1].v) > 0
        /\ IsDefined(Field(analysis, "source"))
        /\ Field(analysis, "source")[1] \in {Str("ai"), Str("fallback")}

\* the generated text holds no {...} span, or one that does not parse
UnparseableText(o) ==
    /\ IsDefined(AnsweredText(o))
    /\ AnsweredText(o)[1] # <<>>
    /\ ~HoldsJSONObject(AnsweredText(o)[1])

\* C2, in the last of the failures it lists (the generated text holds no {...}
\* span, or a span that does not parse as JSON): the result is the fallback
\* classifier's, source "fallback" and confidence "medium".
NoAnswerGivesFallbackResult ==
    (AnalyzeEnded /\ NoUsableAnswer(oracle[1]) /\ UnparseableText(oracle[1])) =>
        /\ Field(analysis, "source") = Defined(Str("fallback"))
        /\ Field(analysis, "confidence") = Defined(Str("medium"))

\* C3, its first half: a non-empty field map from the service is returned as
\* the selectors of a result with source "ai" and confidence "high".
AiMapIsWrappedAsAiResult ==
    (AnalyzeEnded /\ UsableMap(oracle[1])) =>
        /\ Field(analysis, "source") = Defined(Str("ai"))
        /\ Field(analysis, "confidence") = Defined(Str("high"))
        /\ Field(analysis, "selectors") = Defined(Obj(AnsweredMap(oracle[1])))

\* C4: in the fallback path, a prompt that contains "contact" on a page with no
\* email or phone span yields a contact rule, and the fallback does not raise.
ContactPromptGivesContactRule ==
    (/\ AnalyzeEnded
     /\ fallbackStarts = 1
     /\ includes(toLowerCase(UserPrompt(body)), "contact")
     /\ ~nlpDoc.Email
     /\ ~nlpDoc.PhoneNumber) =>
        /\ analysis.kind = "object"
        /\ "contact" \in DOMAIN Field(analysis, "selectors")[1].v
        /\ Len(Field(analysis, "selectors")[1].v["contact"]) > 0

\* the selectors generateDataPreview was given
UsedSelectors == IF route = "scrape" THEN body.selectors[1] ELSE SelectorsOf(analysis)[1]

\* the containers of a page under a field map, in document order
Containers(doc, selectors) ==
    Query(doc, IF "item" \in DOMAIN selectors THEN selectors["item"] ELSE "body")

\* a container with at least one non-empty field value
HasFieldValue(doc, selectors, elem) ==
    \E key \in (DOMAIN selectors) \ {"item"} :
        FirstText(doc, elem, selectors[key]) # ""

ExpectedPreview(doc, selectors) ==
    LET kept == SelectSeq(Containers(doc, selectors),
                          LAMBDA elem : HasFieldValue(doc, selectors, elem))
    IN  [n \in 1..Len(kept) |->
            [key \in (DOMAIN selectors) \ {"item"} |->
                FirstText(doc, kept[n], selectors[key])]]

\* C5: the preview holds, in document order of the containers, one record per
\* container with a non-empty field value and none for the others; with no
\* container it is empty, and no error is raised.
PreviewKeepsExactlyNonEmptyRecords ==
    /\ IsDefined(preview) =>
        /\ preview[1] = ExpectedPreview(html[1], UsedSelectors)
        /\ Containers(html[1], UsedSelectors) = <<>> => preview[1] = <<>>
    /\ (pc = "done" /\ route = "scrape" /\ browser = "closed" /\ IsDefined(body.selectors)) =>
        /\ IsDefined(preview)
        /\ response[1].status = 200

\* a listing page where one item is kept and one dropped
PreviewDropsAnEmptyRecord ==
    /\ route = "scrape"
    /\ IsDefined(preview)
    /\ Len(Containers(html[1], UsedSelectors)) = 2
    /\ Len(preview[1]) = 1

\* the space-separated classes of an element longer than two characters
LongClasses(element) ==
    IF Truthy(element.classes)
    THEN LET cs == split(element.classes[1], " ")
         IN  {k \in 1..Len(cs) : Len(cs[k]) > 2}
    ELSE {}

FirstLongClass(element) ==
    LET cs == split(element.classes[1], " ")
        k == CHOOSE i \in LongClasses(element) : \A j \in LongClasses(element) : i <= j
    IN  cs[k]

\* C6: buildSelector gives "#" + id for an element with an id, else "." + the
\* first class longer than two characters, else the tag name; never "".
BuildSelectorPolicy ==
    IsDefined(fnOut) =>
        LET element == fnIn[1]
            rule == fnOut[1]
        IN  /\ Len(rule) > 0
            /\ Truthy(element.id) => rule = "#" \o element.id[1]
            /\ (~Truthy(element.id) /\ LongClasses(element) # {}) =>
                    rule = "." \o FirstLongClass(element)
            /\ (~Truthy(element.id) /\ LongClasses(element) = {}) => rule = element.tag

\* an element whose first class is too short and whose second is taken
BuildSelectorSkipsShortClass ==
    /\ fnIn[1].id = Undefined
    /\ fnIn[1].classes = Defined("ab bbb")
    /\ fnOut = Defined(".bbb")

\* the end-to-end scenario: the widget page, the service refusing or failing
\* the request
WidgetPrompt == "get me the price and title"

WidgetScenario ==
    /\ pc = "done"
    /\ route = "analyze"
    /\ body.prompt = Defined(WidgetPrompt)
    /\ html = Defined(WidgetDoc)
    /\ oracle[1].statusCode # StatusOK
    /\ fallbackStarts = 1

\* C7 as stated (the page has no email or phone span for the tagger to find):
\* price "#p1" or ".price", title "h2", the generic item rule, prices and
\* products among the data types, and one previewed record.
WidgetScenarioAsStated ==
    (WidgetScenario /\ ~nlpDoc.Email /\ ~nlpDoc.PhoneNumber) =>
        /\ analysis.kind = "object"
        /\ Field(analysis, "source") = Defined(Str("fallback"))
        /\ Field(analysis, "selectors")[1].v["item"] = GenericItemRule
        /\ Field(analysis, "selectors")[1].v["price"] \in {"#p1", ".price"}
        /\ "title" \in DOMAIN Field(analysis, "selectors")[1].v
        /\ Field(analysis, "selectors")[1].v["title"] = "h2"
        /\ {"prices", "products"} \subseteq SeqToSet(Field(analysis, "dataTypes")[1].v)
        /\ preview = Defined(<<[price |-> "$19.99", title |-> "Widget"]>>)

WidgetSelectors(noun) ==
    LET base == ("price" :> "html") @@ ("item" :> GenericItemRule)
    IN  IF noun THEN Put(base, "title", GenericTitleRule) ELSE base

\* C7 as amended: price is "html" (the first element in document order with
\* more than 10 characters of money-like text is the root), title is the generic
\* title rule exactly when the tagger reports a noun ("Widget" is too short to
\* be a heading candidate), dataTypes is prices, then products exactly when the
\* tagger reports a noun, and the preview is empty (nothing matches the generic
\* item rule); when the tagger reports an email or a phone number the analysis
\* raises and the handler answers 500.
WidgetScenarioAsBuilt ==
    WidgetScenario =>
        IF nlpDoc.Email \/ nlpDoc.PhoneNumber
        THEN /\ analysis = RaisedResult
             /\ preview = Undefined
             /\ response[1].status = 500
        ELSE /\ analysis = ObjectResult(
                    ("selectors" :> Obj(WidgetSelectors(nlpDoc.Noun)))
                    @@ ("dataTypes" :> Arr(IF nlpDoc.Noun THEN <<"prices", "products">>
                                           ELSE <<"prices">>))
                    @@ ("confidence" :> Str("medium"))
                    @@ ("source" :> Str("fallback")))
             /\ preview = Defined(<<>>)
             /\ response[1].status = 200

\* the scenario, answered from the fallback with a noun found
WidgetScenarioAnswered ==
    /\ WidgetScenario
    /\ nlpDoc.Noun
    /\ ~nlpDoc.Email
    /\ ~nlpDoc.PhoneNumber
    /\ response[1].status = 200

\* C8: one request per analyze call, never a second; the fallback starts at
\* most once, only after the request has resolved, and never after a usable
\* answer.
OneRequestThenAtMostOneFallback ==
    /\ requestsSent <= 1
    /\ fallbackStarts <= 1
    /\ AnalyzeEnded => requestsSent = 1
    /\ fallbackStarts > 0 =>
        /\ requestsSent = 1
        /\ IsDefined(oracle)
        /\ ~UsableAnswer(oracle[1])
    /\ (AnalyzeEnded /\ UsableAnswer(oracle[1])) => fallbackStarts = 0

\* an analyze call answered through the fallback
FallbackAfterFailedRequest ==
    /\ pc = "done"
    /\ requestsSent = 1
    /\ fallbackStarts = 1
    /\ oracle[1].kind = "throw"
    /\ response[1].status = 200

TagOrder == <<"prices", "emails", "phones", "products">>

\* the gate of each tag: the tagger's finding or a keyword of the prompt
GateFires(tag, userPrompt, nlp) ==
    CASE tag = "prices" -> nlp.Money \/ testI({"price", "cost", "€", "$", "£"}, userPrompt)
      [] tag = "emails" -> nlp.Email \/ testI({"contact", "email"}, userPrompt)
      [] tag = "phones" -> nlp.PhoneNumber \/ testI({"phone", "tel", "contact"}, userPrompt)
      [] tag = "products" -> nlp.Noun \/ testI({"product", "item", "service"}, userPrompt)

\* C9: identifyDataTypes returns a non-empty sequence without duplicates, the
\* fired tags in the order prices, emails, phones, products; it is
\* ["text_content"] exactly when no gate fires, and text_content never comes
\* with another tag.
DataTypesOrderedAndDefaulted ==
    IsDefined(fnOut) =>
        LET types == fnOut[1]
            fired == {tag \in SeqToSet(TagOrder) :
                        GateFires(tag, fnIn[1].userPrompt, fnIn[1].nlp)}
            Rank(tag) == CHOOSE i \in 1..Len(TagOrder) : TagOrder[i] = tag
        IN  /\ Len(types) > 0
            /\ \A i, j \in 1..Len(types) : i # j => types[i] # types[j]
            /\ (types = <<"text_content">>) <=> (fired = {})
            /\ "text_content" \in SeqToSet(types) => Len(types) = 1
            /\ fired # {} =>
                /\ SeqToSet(types) = fired
                /\ \A i, j \in 1..Len(types) : i < j => Rank(types[i]) < Rank(types[j])

\* all four gates fired
DataTypesAllFour == fnOut = Defined(TagOrder)

\* C10: a browser launched for a request is closed before the response is
\* sent, on every path.
BrowserClosedBeforeResponse == IsDefined(response) => browser # "open"

====
